---- MODULE Spec2Model ----
(***************************************************************************)
(* Model of the todo application's task stores.                            *)
(*   Phase 1: the in-memory TaskStorage (src/phase_1/src/storage.py), the  *)
(*            Task dataclass (src/phase_1/src/models.py) and the CLI       *)
(*            dispatcher commands that address a task by id                *)
(*            (src/phase_1/src/cli.py).                                    *)
(*   Phase 2: the multi-tenant TaskService                                 *)
(*            (src/phase_2/backend/src/services/task_service.py) and the   *)
(*            task endpoints (src/phase_2/backend/src/api/v1/tasks.py),    *)
(*            the requests in flight on their own sessions, and the        *)
(*            AuthService (src/phase_2/backend/src/services/               *)
(*            auth_service.py).                                            *)
(* Strings are sequences of one-character strings so that strip() and      *)
(* startswith() are computed as Python computes them.                      *)
(***************************************************************************)
EXTENDS Naturals, Integers, Sequences, FiniteSets, TLC

\* Phase 1: the store, the ids uuid4 has handed out, the clock, the last
\* call, how often each id was returned by add_task and by how many
\* delete_task calls it was removed, how many mark_complete calls toggled the
\* task of each id, the number of calls
VARIABLES tasks, issued, now, last, addCount, delCount, toggleCount, nops

\* Phase 2: the committed rows of the tasks table, the ids uuid4_str has
\* handed out, the clock, the last request, the number of requests, and the
\* HTTP side of the last request (path, Authorization header, the user_id
\* field of its body, the clock when it arrived)
VARIABLES db, minted, utc, resp, nreq, req

\* Phase 2, requests in flight: for each connection the request it carries,
\* from the service call on its own session to the commit of the handler
VARIABLES txn

\* Phase 2, accounts: the committed rows of the user and refreshtoken tables,
\* the tokens login and refresh have handed out, for each user id whether
\* its last login or logout was a logout, the clock, the last call of the
\* AuthService, the number of calls
VARIABLES users, refresh_tokens, handed, logouts, clock, auth, nauth

varsP1 == <<tasks, issued, now, last, addCount, delCount, toggleCount, nops>>
varsP2 == <<db, minted, utc, resp, nreq, req>>
varsTxn == <<txn>>
varsAuth == <<users, refresh_tokens, handed, logouts, clock, auth, nauth>>
vars == <<varsP1, varsP2, varsTxn, varsAuth>>

(***************************************************************************)
(* Bounds                                                                  *)
(***************************************************************************)
\* length of a generated id (stands for the 36 characters of str(uuid4()))
IdLen == 2
\* length of the short id (stands for the 8 characters of id[:8])
ShortLen == 1
\* number of ids uuid4() hands out over the lifetime of the store
MaxIssued == 2
\* largest clock reading
MaxClock == 1
\* number of calls made on the store
MaxOps == 3

\* characters an id is made of
IdChars == {"a", "b"}

(***************************************************************************)
(* Strings                                                                 *)
(***************************************************************************)
RECURSIVE lstrip(_)
lstrip(s) ==
    IF s = <<>> THEN s
    ELSE IF Head(s) = " " THEN lstrip(Tail(s)) ELSE s

RECURSIVE rstrip(_)
rstrip(s) ==
    IF s = <<>> THEN s
    ELSE IF s[Len(s)] = " " THEN rstrip(SubSeq(s, 1, Len(s) - 1)) ELSE s

\* str.strip()
strip(s) == rstrip(lstrip(s))

\* str.startswith(prefix)
startswith(s, prefix) ==
    /\ Len(prefix) <= Len(s)
    /\ SubSeq(s, 1, Len(prefix)) = prefix

\* s[:n]
slice(s, n) == SubSeq(s, 1, IF n <= Len(s) THEN n ELSE Len(s))

\* the condition `not s or not s.strip()`
blank(s) == s = <<>> \/ strip(s) = <<>>

RECURSIVE StringsOfLen(_, _)
StringsOfLen(chars, n) ==
    IF n = 0 THEN {<<>>}
    ELSE {Append(s, c) : s \in StringsOfLen(chars, n - 1), c \in chars}

\* every value str(uuid4()) can take
Ids == StringsOfLen(IdChars, IdLen)

\* Optional[str]: None, or a supplied string
None == [some |-> FALSE, v |-> <<>>]
Some(s) == [some |-> TRUE, v |-> s]

(***************************************************************************)
(* Inputs                                                                  *)
(***************************************************************************)
\* titles a caller may pass
TitleInputs == {<<>>, <<" ">>, <<" ", "x", " ">>, <<"y">>}

\* descriptions a caller may pass
DescInputs == {<<>>, <<"d">>}

\* titles a caller may pass to update_task (None: not supplied)
UpdateTitles == {None, Some(<<>>), Some(<<" ">>), Some(<<" ", "z", " ">>)}

\* descriptions a caller may pass to update_task (None: not supplied)
UpdateDescs == {None, Some(<<"e">>)}

\* identifiers a caller may pass: every prefix of an id (the empty string
\* and the full ids included) and a whitespace-only string
IdInputs == UNION {StringsOfLen(IdChars, n) : n \in 0..IdLen} \cup {<<" ">>}

(***************************************************************************)
(* Task (models.py)                                                        *)
(***************************************************************************)
\* Task.__post_init__ raises ValueError
Task_post_init_raises(title) == blank(title)

\* the Task object after __init__ and __post_init__
Task(title, description, id, created, updated) ==
    [id |-> id, title |-> strip(title), description |-> description,
     completed |-> FALSE, created_at |-> created, updated_at |-> updated]

\* Task.update raises ValueError
Task_update_raises(title) == title.some /\ blank(title.v)

\* the description assigned before the title is validated
Task_update_raised_desc_first(t, title, description) ==
    [t EXCEPT !.description = IF description.some THEN description.v ELSE @]

\* the task after a Task.update that raised: the title is validated before
\* any field is assigned
Task_update_raised(t, title, description) == t

\* the new title stored as supplied
Task_update_unstripped(t, title, description, t_now) ==
    [t EXCEPT !.title = IF title.some THEN title.v ELSE @,
              !.description = IF description.some THEN description.v ELSE @,
              !.updated_at = t_now]

\* an update that builds the task anew
Task_update_recreated(t, title, description, t_now) ==
    [t EXCEPT !.title = IF title.some THEN strip(title.v) ELSE @,
              !.description = IF description.some THEN description.v ELSE @,
              !.created_at = t_now,
              !.updated_at = t_now]

\* Task.update, when it does not raise
Task_update(t, title, description, t_now) ==
    [t EXCEPT !.title = IF title.some THEN strip(title.v) ELSE @,
              !.description = IF description.some THEN description.v ELSE @,
              !.updated_at = t_now]

\* a toggle that also clears the description
Task_toggle_completion_cleared(t, t_now) ==
    [t EXCEPT !.completed = ~@, !.description = <<>>, !.updated_at = t_now]

\* a toggle that only ever marks the task complete
Task_toggle_completion_set(t, t_now) ==
    [t EXCEPT !.completed = TRUE, !.updated_at = t_now]

\* Task.toggle_completion (mark_complete / mark_incomplete)
Task_toggle_completion(t, t_now) ==
    [t EXCEPT !.completed = ~@, !.updated_at = t_now]

(***************************************************************************)
(* TaskStorage (storage.py)                                                *)
(***************************************************************************)
\* a generator that may hand out a value again
uuid4_repeating(iss) == Ids

\* the value of uuid4(): an id never handed out before
uuid4(iss) == Ids \ iss

\* the text of the errors: the ValueError of _find_task_id names the input
AmbiguousMsg(x) == <<"Ambiguous task ID", x>>
NotFoundMsg(x) == <<"not found", x>>
EmptyTitleMsg == <<"Task title cannot be empty">>
NoMsg == <<>>

\* lookup by full id only
_find_task_id_exact(ts, task_id_or_short) ==
    IF blank(task_id_or_short)
      THEN [out |-> "None", id |-> <<>>, msg |-> NoMsg]
    ELSE IF task_id_or_short \in DOMAIN ts
      THEN [out |-> "id", id |-> task_id_or_short, msg |-> NoMsg]
    ELSE [out |-> "None", id |-> <<>>, msg |-> NoMsg]

\* lookup that settles for the first of several matches
_find_task_id_first(ts, task_id_or_short) ==
    LET matches == {i \in DOMAIN ts : startswith(i, task_id_or_short)}
    IN  IF blank(task_id_or_short)
          THEN [out |-> "None", id |-> <<>>, msg |-> NoMsg]
        ELSE IF task_id_or_short \in DOMAIN ts
          THEN [out |-> "id", id |-> task_id_or_short, msg |-> NoMsg]
        ELSE IF Cardinality(matches) >= 1
          THEN [out |-> "id", id |-> CHOOSE i \in matches : TRUE, msg |-> NoMsg]
        ELSE [out |-> "None", id |-> <<>>, msg |-> NoMsg]

\* lookup without the check for an empty or whitespace-only identifier
_find_task_id_unchecked(ts, task_id_or_short) ==
    LET matches == {i \in DOMAIN ts : startswith(i, task_id_or_short)}
    IN  IF task_id_or_short \in DOMAIN ts
          THEN [out |-> "id", id |-> task_id_or_short, msg |-> NoMsg]
        ELSE IF Cardinality(matches) = 1
          THEN [out |-> "id", id |-> CHOOSE i \in matches : TRUE, msg |-> NoMsg]
        ELSE IF Cardinality(matches) > 1
          THEN [out |-> "ValueError", id |-> <<>>,
                msg |-> AmbiguousMsg(task_id_or_short)]
        ELSE [out |-> "None", id |-> <<>>, msg |-> NoMsg]

\* TaskStorage._find_task_id
\*   out = "id": the resolved full id is in id
\*   out = "None": not found;  out = "ValueError": ambiguous, msg the text
_find_task_id(ts, task_id_or_short) ==
    LET matches == {i \in DOMAIN ts : startswith(i, task_id_or_short)}
    IN  IF blank(task_id_or_short)
          THEN [out |-> "None", id |-> <<>>, msg |-> NoMsg]
        ELSE IF task_id_or_short \in DOMAIN ts
          THEN [out |-> "id", id |-> task_id_or_short, msg |-> NoMsg]
        ELSE IF Cardinality(matches) = 1
          THEN [out |-> "id", id |-> CHOOSE i \in matches : TRUE, msg |-> NoMsg]
        ELSE IF Cardinality(matches) > 1
          THEN [out |-> "ValueError", id |-> <<>>,
                msg |-> AmbiguousMsg(task_id_or_short)]
        ELSE [out |-> "None", id |-> <<>>, msg |-> NoMsg]

\* TaskStorage.get_task as a function of the store
get_task_of(ts, task_id) ==
    LET f == _find_task_id(ts, task_id)
    IN  IF f.out = "id" THEN [out |-> "Task", res |-> {ts[f.id]}, msg |-> NoMsg]
        ELSE [out |-> f.out, res |-> {}, msg |-> f.msg]

\* the task stored under its short id
dict_put_short(ts, task) ==
    [i \in DOMAIN ts \cup {slice(task.id, ShortLen)} |->
       IF i = slice(task.id, ShortLen) THEN task ELSE ts[i]]

\* self._tasks[task.id] = task
dict_put(ts, task) ==
    [i \in DOMAIN ts \cup {task.id} |-> IF i = task.id THEN task ELSE ts[i]]

\* the store emptied
dict_del_all(ts, full_id) == [i \in {} |-> ts[i]]

\* the entry left in place
dict_del_kept(ts, full_id) == ts

\* del self._tasks[full_id]
dict_del(ts, full_id) == [i \in DOMAIN ts \ {full_id} |-> ts[i]]

\* one more call on the store
Step ==
    /\ nops < MaxOps
    /\ nops' = nops + 1
    /\ UNCHANGED <<varsP2, varsTxn, varsAuth>>

\* the record of a call: operation, arguments, outcome, returned task (if
\* any), the store before the call and the text the CLI printed
Call(op, arg, title, desc, out, res, pre, msg) ==
    [op |-> op, arg |-> arg, title |-> title, desc |-> desc, out |-> out,
     res |-> res, pre |-> pre, msg |-> msg]

InitP1 ==
    /\ tasks = [i \in {} |-> 0]
    /\ issued = {}
    /\ now = 0
    /\ last = Call("init", <<>>, None, None, "None", {}, [i \in {} |-> 0], NoMsg)
    /\ addCount = [i \in Ids |-> 0]
    /\ nops = 0
    /\ delCount = [i \in Ids |-> 0]
    /\ toggleCount = [i \in Ids |-> 0]

\* the values a call of datetime.now() can return: the clock never runs
\* backwards, and it may not have moved since the previous reading
datetime_now(prev) == {t \in {prev, prev + 1} : t <= MaxClock}

\* TaskStorage.add_task(title, description)
add_task(title, description) ==
    /\ Step
    /\ IF Task_post_init_raises(title)
         THEN /\ \E t1 \in datetime_now(now) : \E t2 \in datetime_now(t1) : now' = t2
              /\ last' = Call("add_task", <<>>, Some(title), Some(description),
                              "ValueError", {}, tasks, EmptyTitleMsg)
              /\ UNCHANGED <<tasks, issued, addCount>>
         ELSE /\ Cardinality(issued) < MaxIssued
              /\ \E id \in uuid4(issued) :
                 \E t1 \in datetime_now(now) : \E t2 \in datetime_now(t1) :
                   LET task == Task(title, description, id, t1, t2)
                   IN  /\ issued' = issued \cup {id}
                       /\ now' = t2
                       /\ tasks' = dict_put(tasks, task)
                       /\ addCount' = [addCount EXCEPT ![task.id] = @ + 1]
                       /\ last' = Call("add_task", <<>>, Some(title), Some(description),
                                       "Task", {task}, tasks, NoMsg)
    /\ UNCHANGED <<delCount, toggleCount>>

\* TaskStorage.get_task(task_id)
get_task(task_id) ==
    /\ Step
    /\ LET r == get_task_of(tasks, task_id)
       IN  last' = Call("get_task", task_id, None, None, r.out, r.res, tasks, r.msg)
    /\ UNCHANGED <<tasks, issued, now, addCount, delCount, toggleCount>>

\* TaskStorage.update_task(task_id, title, description)
update_task(task_id, title, description) ==
    LET f == _find_task_id(tasks, task_id)
    IN  /\ Step
        /\ IF f.out # "id"
             THEN /\ UNCHANGED <<tasks, now>>
                  /\ last' = Call("update_task", task_id, title, description,
                                  f.out, {}, tasks, f.msg)
           ELSE IF Task_update_raises(title)
             THEN /\ tasks' = [tasks EXCEPT ![f.id] =
                                     Task_update_raised(@, title, description)]
                  /\ now' = now
                  /\ last' = Call("update_task", task_id, title, description,
                                  "ValueError", {}, tasks, EmptyTitleMsg)
           ELSE \E t \in datetime_now(now) :
                LET task == Task_update(tasks[f.id], title, description, t)
                IN  /\ tasks' = [tasks EXCEPT ![f.id] = task]
                    /\ now' = t
                    /\ last' = Call("update_task", task_id, title, description,
                                    "Task", {task}, tasks, NoMsg)
        /\ UNCHANGED <<issued, addCount, delCount, toggleCount>>

\* TaskStorage.mark_complete(task_id)
mark_complete(task_id) ==
    LET f == _find_task_id(tasks, task_id)
    IN  /\ Step
        /\ IF f.out # "id"
             THEN /\ UNCHANGED <<tasks, now>>
                  /\ last' = Call("mark_complete", task_id, None, None,
                                  f.out, {}, tasks, f.msg)
             ELSE \E t \in datetime_now(now) :
                  LET task == Task_toggle_completion(tasks[f.id], t)
                  IN  /\ tasks' = [tasks EXCEPT ![f.id] = task]
                      /\ now' = t
                      /\ last' = Call("mark_complete", task_id, None, None,
                                      "Task", {task}, tasks, NoMsg)
        /\ toggleCount' = IF f.out = "id"
                            THEN [toggleCount EXCEPT ![f.id] = @ + 1]
                            ELSE toggleCount
        /\ UNCHANGED <<issued, addCount, delCount>>

\* TaskStorage.delete_task(task_id)
delete_task(task_id) ==
    LET f == _find_task_id(tasks, task_id)
    IN  /\ Step
        /\ IF f.out = "ValueError"
             THEN /\ tasks' = tasks
                  /\ delCount' = delCount
                  /\ last' = Call("delete_task", task_id, None, None,
                                  "ValueError", {}, tasks, f.msg)
           ELSE IF f.out = "None"
             THEN /\ tasks' = tasks
                  /\ delCount' = delCount
                  /\ last' = Call("delete_task", task_id, None, None,
                                  "False", {}, tasks, NoMsg)
           ELSE /\ tasks' = dict_del(tasks, f.id)
                /\ delCount' = IF task_id \in Ids
                                 THEN [delCount EXCEPT ![task_id] = @ + 1]
                                 ELSE delCount
                /\ last' = Call("delete_task", task_id, None, None,
                                "True", {}, tasks, NoMsg)
        /\ UNCHANGED <<issued, now, addCount, toggleCount>>

(***************************************************************************)
(* CommandDispatcher (cli.py): the commands that address a task by id      *)
(***************************************************************************)
RequiredMsg == <<"Task ID is required">>
UpdatedMsg == <<"Task updated">>

\* command arguments: an identifier, possibly padded with whitespace
CliArgs == IdInputs \cup {<<"a", " ">>}

\* the words of an update command line (args.split()): the identifier, then
\* the words of the new title and description
UpdateWords ==
    {<<>>, <<<<"a">>>>}
    \cup {<<i, <<"z">>>> : i \in IdInputs \ {<<>>, <<" ">>}}
    \cup {<<<<"a">>, <<"y">>, <<"z">>>>, <<<<"a">>, <<"y">>, <<"z">>, <<"e">>>>}

\* CommandDispatcher.cmd_complete(args)
cmd_complete(args) ==
    LET task_id == strip(args)
        f == _find_task_id(tasks, task_id)
    IN  /\ Step
        /\ IF blank(args)
             THEN /\ UNCHANGED <<tasks, now>>
                  /\ last' = Call("cmd_complete", args, None, None, "False", {},
                                  tasks, RequiredMsg)
           ELSE IF f.out = "ValueError"
             THEN /\ UNCHANGED <<tasks, now>>
                  /\ last' = Call("cmd_complete", args, None, None, "False", {},
                                  tasks, AmbiguousMsg(task_id))
           ELSE IF f.out = "None"
             THEN /\ UNCHANGED <<tasks, now>>
                  /\ last' = Call("cmd_complete", args, None, None, "False", {},
                                  tasks, NotFoundMsg(task_id))
           ELSE \E t \in datetime_now(now) :
                LET task == Task_toggle_completion(tasks[f.id], t)
                IN  /\ tasks' = [tasks EXCEPT ![f.id] = task]
                    /\ now' = t
                    /\ last' = Call("cmd_complete", args, None, None, "True",
                                    {task}, tasks, NoMsg)
        /\ toggleCount' = IF ~blank(args) /\ f.out = "id"
                            THEN [toggleCount EXCEPT ![f.id] = @ + 1]
                            ELSE toggleCount
        /\ UNCHANGED <<issued, addCount, delCount>>

\* CommandDispatcher.cmd_update(args), args.split() being words
cmd_update(words) ==
    LET task_id == words[1]
        new_title == IF Len(words) = 2 THEN words[2]
                     ELSE words[2] \o <<" ">> \o words[3]
        new_description == IF Len(words) >= 4 THEN Some(words[4]) ELSE None
        f == _find_task_id(tasks, task_id)
    IN  /\ Step
        /\ IF Len(words) < 2
             THEN /\ UNCHANGED <<tasks, now>>
                  /\ last' = Call("cmd_update", <<>>, None, None, "False", {},
                                  tasks, RequiredMsg)
           ELSE IF f.out = "ValueError"
             THEN /\ UNCHANGED <<tasks, now>>
                  /\ last' = Call("cmd_update", task_id, Some(new_title),
                                  new_description, "False", {}, tasks,
                                  AmbiguousMsg(task_id))
           ELSE IF f.out = "None"
             THEN /\ UNCHANGED <<tasks, now>>
                  /\ last' = Call("cmd_update", task_id, Some(new_title),
                                  new_description, "False", {}, tasks,
                                  NotFoundMsg(task_id))
           ELSE IF Task_update_raises(Some(new_title))
             THEN /\ tasks' = [tasks EXCEPT ![f.id] =
                        Task_update_raised(@, Some(new_title), new_description)]
                  /\ now' = now
                  /\ last' = Call("cmd_update", task_id, Some(new_title),
                                  new_description, "False", {}, tasks,
                                  EmptyTitleMsg)
           ELSE \E t \in datetime_now(now) :
                LET task == Task_update(tasks[f.id], Some(new_title),
                                        new_description, t)
                IN  /\ tasks' = [tasks EXCEPT ![f.id] = task]
                    /\ now' = t
                    /\ last' = Call("cmd_update", task_id, Some(new_title),
                                    new_description, "True", {task}, tasks,
                                    UpdatedMsg)
        /\ UNCHANGED <<issued, addCount, delCount, toggleCount>>

\* CommandDispatcher.cmd_delete(args): get_task, then delete_task
cmd_delete(args) ==
    LET task_id == strip(args)
        f == _find_task_id(tasks, task_id)
    IN  /\ Step
        /\ IF blank(args)
             THEN /\ UNCHANGED <<tasks, delCount>>
                  /\ last' = Call("cmd_delete", args, None, None, "False", {},
                                  tasks, RequiredMsg)
           ELSE IF f.out = "ValueError"
             THEN /\ UNCHANGED <<tasks, delCount>>
                  /\ last' = Call("cmd_delete", args, None, None, "False", {},
                                  tasks, AmbiguousMsg(task_id))
           ELSE IF f.out = "None"
             THEN /\ UNCHANGED <<tasks, delCount>>
                  /\ last' = Call("cmd_delete", args, None, None, "False", {},
                                  tasks, NotFoundMsg(task_id))
           ELSE /\ tasks' = dict_del(tasks, f.id)
                /\ delCount' = IF task_id \in Ids
                                 THEN [delCount EXCEPT ![task_id] = @ + 1]
                                 ELSE delCount
                /\ last' = Call("cmd_delete", args, None, None, "True",
                                {tasks[f.id]}, tasks, NoMsg)
        /\ UNCHANGED <<issued, now, addCount, toggleCount>>

NextP1 ==
    \/ \E title \in TitleInputs, description \in DescInputs :
         add_task(title, description)
    \/ \E task_id \in IdInputs : get_task(task_id)
    \/ \E task_id \in IdInputs,
          title \in UpdateTitles, description \in UpdateDescs :
         update_task(task_id, title, description)
    \/ \E task_id \in IdInputs : mark_complete(task_id)
    \/ \E task_id \in IdInputs : delete_task(task_id)
    \/ \E args \in CliArgs : cmd_complete(args)
    \/ \E words \in UpdateWords : cmd_update(words)
    \/ \E args \in CliArgs : cmd_delete(args)

(***************************************************************************)
(* Phase 2: TaskService (task_service.py) and the task endpoints (tasks.py)*)
(***************************************************************************)
\* number of requests made
MaxReq == 3
\* title and description length limits
TitleMax == 255
DescMax == 2000

\* user ids (the subjects of verified tokens)
Users == {"A", "B"}

\* TaskStatus
TaskStatus == {"Pending", "In Progress", "Completed", "Archived"}

\* the session a TaskService is built on: the sqlmodel Session its
\* constructor declares, or the AsyncSession get_db_session yields to the
\* endpoints
SessionKinds == {"Session", "AsyncSession"}

\* every value uuid4_str() can take
TaskIds == {"t1", "t2", "t3"}

\* request inputs
LongTitle == [i \in 1..(TitleMax + 1) |-> "x"]
LongDesc == [i \in 1..(DescMax + 1) |-> "d"]
P2Titles == {<<>>, <<" ">>, <<" ", "x">>, LongTitle}
P2Descs == {None, Some(LongDesc)}
P2Statuses == {"Pending"}
NoData == [title |-> None, description |-> None, status |-> None]
P2UpdateData ==
    {NoData,
     [NoData EXCEPT !.title = Some(<<" ">>)],
     [NoData EXCEPT !.title = Some(<<"z">>), !.description = Some(<<"e">>)],
     [NoData EXCEPT !.status = Some("Completed")],
     [NoData EXCEPT !.title = Some(<<"z">>), !.status = Some("Done")]}
\* limit, offset and status filter of a list request
P2ListQueries ==
    {[limit |-> 2, offset |-> 0, status |-> None],
     [limit |-> 1, offset |-> 1, status |-> None],
     [limit |-> 1, offset |-> 0, status |-> Some("Completed")],
     [limit |-> 2, offset |-> 0, status |-> Some("Done")]}

\* the values utc_now() can return after a reading of prev
utc_now(prev) == {t \in {prev, prev + 1} : t <= MaxClock}

\* the value of uuid4_str(): an id never handed out before
uuid4_str(m) == TaskIds \ m

Rows(d) == {d[i] : i \in DOMAIN d}

\* session.execute(stmt) for a statement selecting rows: a Result on a
\* Session; on an AsyncSession execute is a coroutine function, and the
\* call without await yields a coroutine object instead of a Result
execute(kind, rows) ==
    IF kind = "Session" THEN [coroutine |-> FALSE, rows |-> rows]
    ELSE [coroutine |-> TRUE, rows |-> {}]

\* a title check without the upper bound
TitleInvalid_unbounded(title) == title = <<>> \/ Len(title) < 1

\* the title check of create_task and update_task raises ValueError
TitleInvalid(title) == title = <<>> \/ Len(title) < 1 \/ Len(title) > TitleMax

\* TaskService.create_task: the outcome and the row added to the session
svc_create_task(kind, user_id, title, description, status, id, t1, t2) ==
    IF TitleInvalid(title)
      THEN [out |-> "ValueError", detail |-> "Title must be 1-255 characters",
            res |-> {}]
    ELSE IF description.some /\ description.v # <<>>
            /\ Len(description.v) > DescMax
      THEN [out |-> "ValueError",
            detail |-> "Description cannot exceed 2000 characters", res |-> {}]
    ELSE IF status \notin TaskStatus
      THEN [out |-> "ValueError", detail |-> "Invalid status", res |-> {}]
    ELSE [out |-> "Task", detail |-> "",
          res |-> {[id |-> id, user_id |-> user_id, title |-> title,
                    description |-> description, status |-> status,
                    created_at |-> t1, updated_at |-> t2]}]

\* the lookup without the owner condition
svc_get_task_by_id_any_owner(kind, d, user_id, task_id) ==
    LET result == execute(kind, {r \in Rows(d) : r.id = task_id})
    IN  IF result.coroutine
          THEN [out |-> "AttributeError", res |-> {}]
        ELSE IF result.rows = {} THEN [out |-> "None", res |-> {}]
        ELSE [out |-> "Task", res |-> result.rows]

\* TaskService.get_task_by_id
svc_get_task_by_id(kind, d, user_id, task_id) ==
    LET result == execute(kind, {r \in Rows(d) :
                                   r.id = task_id /\ r.user_id = user_id})
    IN  IF result.coroutine
          THEN [out |-> "AttributeError", res |-> {}]
        ELSE IF result.rows = {} THEN [out |-> "None", res |-> {}]
        ELSE [out |-> "Task", res |-> result.rows]

\* the sequences that list the rows once each, latest created_at first
RECURSIVE OrderedDesc(_)
OrderedDesc(rows) ==
    IF rows = {} THEN {<<>>}
    ELSE UNION {{<<r>> \o s : s \in OrderedDesc(rows \ {r})} :
                  r \in {x \in rows : \A y \in rows :
                            x.created_at >= y.created_at}}

\* s[offset : offset + limit]
Page(s, offset, limit) ==
    SubSeq(s, offset + 1,
           IF offset + limit <= Len(s) THEN offset + limit ELSE Len(s))

\* TaskService.get_user_tasks: the outcomes (the order of rows created at the
\* same instant is the database's choice)
svc_get_user_tasks(kind, d, user_id, limit, offset, status) ==
    LET matching == {r \in Rows(d) :
                       /\ r.user_id = user_id
                       /\ status.some /\ status.v # "" => r.status = status.v}
        count_result == execute(kind, matching)
    IN  IF status.some /\ status.v # "" /\ status.v \notin TaskStatus
          THEN {[out |-> "ValueError", list |-> <<>>, total |-> 0]}
        ELSE IF count_result.coroutine
          THEN {[out |-> "AttributeError", list |-> <<>>, total |-> 0]}
        ELSE {[out |-> "Tasks", list |-> Page(s, offset, limit),
               total |-> Cardinality(count_result.rows)] :
                 s \in OrderedDesc(matching)}

\* an update that assigns every field of the request, supplied or not
svc_update_task_overwrite(kind, d, user_id, task_id, data, t_now) ==
    LET result == execute(kind, {r \in Rows(d) :
                                   r.id = task_id /\ r.user_id = user_id})
        task == CHOOSE r \in result.rows : TRUE
    IN  IF result.coroutine
          THEN [out |-> "AttributeError", detail |-> "", res |-> {},
                dirty |-> {}]
        ELSE IF result.rows = {}
          THEN [out |-> "None", detail |-> "", res |-> {}, dirty |-> {}]
        ELSE IF data.title.some /\ TitleInvalid(data.title.v)
          THEN [out |-> "ValueError",
                detail |-> "Title must be 1-255 characters", res |-> {},
                dirty |-> {task}]
        ELSE IF data.status.some /\ data.status.v \notin TaskStatus
          THEN [out |-> "ValueError", detail |-> "Invalid status", res |-> {},
                dirty |-> {task}]
        ELSE [out |-> "Task", detail |-> "", dirty |-> {},
              res |-> {[task EXCEPT
                 !.title = IF data.title.some THEN data.title.v ELSE @,
                 !.description = data.description,
                 !.status = IF data.status.some THEN data.status.v ELSE @,
                 !.updated_at = t_now]}]

\* TaskService.update_task: the outcome, the row as updated and, when the
\* call raised, the object of the session as assigned up to the raise
svc_update_task(kind, d, user_id, task_id, data, t_now) ==
    LET result == execute(kind, {r \in Rows(d) :
                                   r.id = task_id /\ r.user_id = user_id})
        task == CHOOSE r \in result.rows : TRUE
        titled == [task EXCEPT
                     !.title = IF data.title.some THEN data.title.v ELSE @]
        described == [titled EXCEPT
                        !.description = IF data.description.some
                                          THEN data.description ELSE @]
    IN  IF result.coroutine
          THEN [out |-> "AttributeError", detail |-> "", res |-> {},
                dirty |-> {}]
        ELSE IF result.rows = {}
          THEN [out |-> "None", detail |-> "", res |-> {}, dirty |-> {}]
        ELSE IF data.title.some /\ TitleInvalid(data.title.v)
          THEN [out |-> "ValueError",
                detail |-> "Title must be 1-255 characters", res |-> {},
                dirty |-> {task}]
        ELSE IF data.description.some /\ Len(data.description.v) > DescMax
          THEN [out |-> "ValueError",
                detail |-> "Description cannot exceed 2000 characters",
                res |-> {}, dirty |-> {titled}]
        ELSE IF data.status.some /\ data.status.v \notin TaskStatus
          THEN [out |-> "ValueError", detail |-> "Invalid status", res |-> {},
                dirty |-> {described}]
        ELSE [out |-> "Task", detail |-> "", dirty |-> {},
              res |-> {[task EXCEPT
                 !.title = IF data.title.some THEN data.title.v ELSE @,
                 !.description = IF data.description.some
                                   THEN data.description ELSE @,
                 !.status = IF data.status.some THEN data.status.v ELSE @,
                 !.updated_at = t_now]}]

\* TaskService.delete_task
svc_delete_task(kind, d, user_id, task_id) ==
    LET result == execute(kind, {r \in Rows(d) :
                                   r.id = task_id /\ r.user_id = user_id})
    IN  IF result.coroutine THEN [out |-> "AttributeError", res |-> {}]
        ELSE IF result.rows = {} THEN [out |-> "False", res |-> {}]
        ELSE [out |-> "True", res |-> result.rows]

\* session.commit() after session.add(row): the row is inserted or replaces
\* the row with its primary key
commit_add(d, row) ==
    [i \in DOMAIN d \cup {row.id} |-> IF i = row.id THEN row ELSE d[i]]

\* a failed request ended without session.rollback(): the objects assigned
\* before the raise are written
rollback_skipped(d, dirty) ==
    [i \in DOMAIN d |-> IF \E x \in dirty : x.id = i
                           THEN CHOOSE x \in dirty : x.id = i ELSE d[i]]

\* session.rollback(): the objects assigned before the raise are discarded
rollback(d, dirty) == d

\* session.commit() after session.delete(row)
commit_delete(d, row) == [i \in DOMAIN d \ {row.id} |-> d[i]]

\* the record of a request: the operation, whether it was a call of the
\* service or of the endpoint, the caller, the arguments, the outcome of the
\* service, the HTTP status and detail, the rows returned, the table before
Resp(op, level, user, arg, data, out, status, detail, res, list, total, pre) ==
    [op |-> op, level |-> level, user |-> user, arg |-> arg, data |-> data,
     out |-> out, status |-> status, detail |-> detail, res |-> res,
     list |-> list, total |-> total, pre |-> pre]

\* a call that is not an HTTP request
NoReq == [path |-> "", header |-> None, body_user_id |-> None, at |-> 0]

InitP2 ==
    /\ req = NoReq
    /\ db = [i \in {} |-> 0]
    /\ minted = {}
    /\ utc = 0
    /\ resp = Resp("init", "", "", "", NoData, "", 0, "", {}, <<>>, 0,
                   [i \in {} |-> 0])
    /\ nreq = 0

\* one more request
Request ==
    /\ nreq < MaxReq
    /\ nreq' = nreq + 1
    /\ UNCHANGED <<varsP1, varsTxn, varsAuth>>

\* the status and detail the endpoints answer with
HttpOf(op, out, detail) ==
    CASE out = "ValueError" -> [status |-> 400, detail |-> detail]
      [] out \in {"AttributeError", "StaleDataError"} ->
           [status |-> 500,
            detail |-> CASE op = "create_task" -> "Failed to create task"
                         [] op = "list_tasks" -> "Failed to retrieve tasks"
                         [] op = "get_task" -> "Failed to retrieve task"
                         [] op = "update_task" -> "Failed to update task"
                         [] op = "delete_task" -> "Failed to delete task"]
      [] out \in {"None", "False"} -> [status |-> 404, detail |-> "Task not found"]
      [] out = "True" -> [status |-> 204, detail |-> ""]
      [] out \in {"Task", "Tasks"} ->
           [status |-> IF op = "create_task" THEN 201 ELSE 200, detail |-> ""]

(***************************************************************************)
(* JWTVerificationMiddleware (middleware/jwt_verification.py)              *)
(***************************************************************************)
PUBLIC_ENDPOINTS ==
    {"/health", "/api/v1/auth/register", "/api/v1/auth/login",
     "/api/v1/auth/refresh", "/api/v1/auth/forgot-password",
     "/api/v1/auth/reset-password", "/docs", "/redoc", "/openapi.json"}

\* the paths of the task endpoints
TasksPath == "/api/v1/tasks"
TaskPath == "/api/v1/tasks/{task_id}"

\* the paths of the registration, login, refresh and health handlers
AuthPaths ==
    {"/health", "/api/v1/auth/register", "/api/v1/auth/login",
     "/api/v1/auth/refresh", "/api/v1/auth/sign-up/email",
     "/api/v1/auth/sign-in/email"}

BEARER_PREFIX == <<"B", "e", "a", "r", "e", "r", " ">>
better_auth_secret == "secret"

\* expiry of a token that outlives every run
FarExp == 9

\* the tokens a caller may present, with the key they are signed with and
\* the claims they carry
JWTs ==
    [tokA |-> [key |-> "secret", exp |-> FarExp, sub |-> Some("A")],
     tokB |-> [key |-> "secret", exp |-> FarExp, sub |-> Some("B")],
     tokA0 |-> [key |-> "secret", exp |-> 0, sub |-> Some("A")],
     tokNoSub |-> [key |-> "secret", exp |-> FarExp, sub |-> None],
     tokForgedA |-> [key |-> "other", exp |-> FarExp, sub |-> Some("A")]]

\* the header "Bearer <token>"
Bearer(token) == BEARER_PREFIX \o <<token>>

\* Authorization headers a caller may send (None: no header)
Headers ==
    {None, Some(<<"B", "a", "s", "i", "c", " ", "tokA">>)}
    \cup {Some(Bearer(t)) : t \in DOMAIN JWTs}

\* the headers sent with every request body and argument of the input sets;
\* the other headers are sent with one body or argument per endpoint
UserHeaders == {Some(Bearer("tokA")), Some(Bearer("tokB"))}

\* the requests to POST /api/v1/tasks: header, the user_id field of the body
\* (None: no such field), title, description, status
CreateRequests ==
    {[header |-> h, body_user_id |-> None, title |-> t, description |-> d,
      status |-> st] :
        h \in UserHeaders, t \in P2Titles, d \in P2Descs, st \in P2Statuses}
    \cup {[header |-> h, body_user_id |-> Some("B"), title |-> <<" ", "x">>,
           description |-> None, status |-> "Pending"] : h \in Headers}

\* the requests to GET /api/v1/tasks
ListRequests ==
    {[header |-> h, q |-> q] : h \in UserHeaders, q \in P2ListQueries}
    \cup {[header |-> h, q |-> [limit |-> 2, offset |-> 0, status |-> None]] :
            h \in Headers}

\* the requests to GET and DELETE /api/v1/tasks/{task_id}
TaskRequests ==
    {[header |-> h, task_id |-> t] : h \in UserHeaders, t \in TaskIds}
    \cup {[header |-> h, task_id |-> "t1"] : h \in Headers}

\* the requests to PATCH /api/v1/tasks/{task_id}
UpdateRequests ==
    {[header |-> h, body_user_id |-> None, task_id |-> t, data |-> d] :
        h \in UserHeaders, t \in TaskIds, d \in P2UpdateData}
    \cup {[header |-> h, body_user_id |-> Some("B"), task_id |-> "t1",
           data |-> [NoData EXCEPT !.title = Some(<<"z">>),
                                   !.description = Some(<<"e">>)]] :
            h \in Headers}

\* the requests to the registration, login, refresh and health handlers
AuthRequests ==
    {[path |-> p, header |-> h] :
        p \in AuthPaths,
        h \in {None, Some(<<"B", "a", "s", "i", "c", " ", "tokA">>),
               Some(Bearer("tokForgedA")), Some(Bearer("tokA"))}}

\* a decode that does not verify the signature
jwt_decode_unverified(token, key, t_now) ==
    IF Len(token) # 1 \/ token[1] \notin DOMAIN JWTs
      THEN [error |-> TRUE, sub |-> None]
    ELSE IF JWTs[token[1]].exp < t_now
      THEN [error |-> TRUE, sub |-> None]
    ELSE [error |-> FALSE, sub |-> JWTs[token[1]].sub]

\* jwt.decode(token, key, algorithms): JWTError for a string that is not a
\* token, a signature made with another key, or an expiry in the past
jwt_decode(token, key, t_now) ==
    IF Len(token) # 1 \/ token[1] \notin DOMAIN JWTs
      THEN [error |-> TRUE, sub |-> None]
    ELSE IF JWTs[token[1]].key # key \/ JWTs[token[1]].exp < t_now
      THEN [error |-> TRUE, sub |-> None]
    ELSE [error |-> FALSE, sub |-> JWTs[token[1]].sub]

\* JWTVerificationMiddleware.dispatch: whether the request is forwarded to
\* its handler, request.state.user_id if it was set, and the response if not
JWTVerificationMiddleware_dispatch(path, header, t_now) ==
    LET auth_header == IF header.some THEN header.v ELSE <<>>
        token == strip(SubSeq(auth_header, Len(BEARER_PREFIX) + 1,
                              Len(auth_header)))
        payload == jwt_decode(token, better_auth_secret, t_now)
    IN  IF path \in PUBLIC_ENDPOINTS
          THEN [forward |-> TRUE, user_id |-> None, status |-> 0,
                detail |-> ""]
        ELSE IF ~startswith(auth_header, BEARER_PREFIX)
          THEN [forward |-> FALSE, user_id |-> None, status |-> 401,
                detail |-> "Invalid or missing Authorization header"]
        ELSE IF payload.error
          THEN [forward |-> FALSE, user_id |-> None, status |-> 401,
                detail |-> "Invalid or expired token"]
        ELSE IF ~payload.sub.some
          THEN [forward |-> FALSE, user_id |-> None, status |-> 401,
                detail |-> "Invalid token claims"]
        ELSE [forward |-> TRUE, user_id |-> payload.sub, status |-> 0,
              detail |-> ""]

\* get_current_user_id: 401 unless request.state.user_id is set
get_current_user_id(state_user_id) ==
    IF ~state_user_id.some
      THEN [forward |-> FALSE, user_id |-> "", status |-> 401,
            detail |-> "Unauthorized - invalid or missing authentication"]
    ELSE [forward |-> TRUE, user_id |-> state_user_id.v, status |-> 0,
          detail |-> ""]

\* the middleware and the dependency of the task endpoints, in this order
Resolve(path, header, t_now) ==
    LET m == JWTVerificationMiddleware_dispatch(path, header, t_now)
    IN  IF ~m.forward THEN [m EXCEPT !.user_id = ""]
        ELSE get_current_user_id(m.user_id)

\* a request answered before its handler ran
Rejected(op, arg, data, r) ==
    /\ Request
    /\ resp' = Resp(op, "endpoint", "", arg, data, "", r.status, r.detail,
                    {}, <<>>, 0, db)
    /\ UNCHANGED <<db, minted, utc>>

\* a request to the handler of a registration, login, refresh or health
\* path: answered by the middleware, or forwarded to the handler (call_next)
auth_request(path, header) ==
    LET m == JWTVerificationMiddleware_dispatch(path, header, utc)
    IN  /\ req' = [path |-> path, header |-> header, body_user_id |-> None,
                   at |-> utc]
        /\ IF m.forward
             THEN /\ Request
                  /\ resp' = Resp("auth", "endpoint", "", "", NoData,
                                  "call_next", 0, "", {}, <<>>, 0, db)
                  /\ UNCHANGED <<db, minted, utc>>
             ELSE Rejected("auth", "", NoData, m)

\* the session kind of a call level
KindOf(level) == IF level = "endpoint" THEN "AsyncSession" ELSE "Session"

\* the status recorded for a call level
StatusOf(level, op, out, detail) ==
    IF level = "endpoint" THEN HttpOf(op, out, detail)
    ELSE [status |-> 0, detail |-> detail]

\* create: TaskService.create_task and the commit or rollback of its caller
\* (the create_task endpoint, or a direct caller holding a Session)
DoCreate(level, user_id, title, description, status) ==
    /\ Request
    /\ Cardinality(minted) < MaxIssued
    /\ \E id \in uuid4_str(minted) :
       \E t1 \in utc_now(utc) : \E t2 \in utc_now(t1) :
         LET r == svc_create_task(KindOf(level), user_id, title, description,
                                  status, id, t1, t2)
             h == StatusOf(level, "create_task", r.out, r.detail)
             data == [title |-> Some(title), description |-> description,
                      status |-> Some(status)]
         IN  /\ resp' = Resp("create_task", level, user_id, "", data, r.out,
                             h.status, h.detail, r.res, <<>>, 0, db)
             /\ IF r.out = "Task"
                  THEN /\ db' = commit_add(db, CHOOSE x \in r.res : TRUE)
                       /\ minted' = minted \cup {id}
                       /\ utc' = t2
                  ELSE UNCHANGED <<db, minted, utc>>

\* TaskService.create_task on a Session, committed
TaskService_create_task(user_id, title, description, status) ==
    /\ req' = NoReq
    /\ DoCreate("service", user_id, title, description, status)

\* TaskCreate rejects the request body (422)
TaskCreate_invalid(title, description) ==
    \/ Len(title) < 1 \/ Len(title) > TitleMax
    \/ description.some /\ Len(description.v) > DescMax

\* the owner create_task passes to the service: the body's user_id
owner_from_body(user_id, body_user_id) ==
    IF body_user_id.some THEN body_user_id.v ELSE user_id

\* the owner create_task passes to the service: user_id=user_id, the value
\* of Depends(get_current_user_id); TaskCreate has no user_id field
owner(user_id, body_user_id) == user_id

\* POST /api/v1/tasks, the body carrying title, description, status and
\* possibly a user_id
api_create_task(header, body_user_id, title, description, status) ==
    LET r == Resolve(TasksPath, header, utc)
        data == [title |-> Some(title), description |-> description,
                 status |-> Some(status)]
    IN  /\ req' = [path |-> TasksPath, header |-> header,
                   body_user_id |-> body_user_id, at |-> utc]
        /\ IF ~r.forward THEN Rejected("create_task", "", data, r)
           ELSE IF TaskCreate_invalid(title, description)
             THEN /\ Request
                  /\ resp' = Resp("create_task", "endpoint", r.user_id, "",
                                  data, "", 422, "validation error", {}, <<>>,
                                  0, db)
                  /\ UNCHANGED <<db, minted, utc>>
           ELSE DoCreate("endpoint", owner(r.user_id, body_user_id), title,
                         description, status)

\* list: TaskService.get_user_tasks as called by the list_tasks endpoint or
\* by a direct caller holding a Session
DoList(level, user_id, limit, offset, status) ==
    /\ Request
    /\ \E r \in svc_get_user_tasks(KindOf(level), db, user_id, limit, offset,
                                   status) :
         LET h == StatusOf(level, "list_tasks", r.out, "Invalid status filter")
         IN  resp' = Resp("list_tasks", level, user_id, "",
                          [title |-> None, description |-> None,
                           status |-> status, limit |-> limit,
                           offset |-> offset], r.out, h.status,
                          h.detail, {}, r.list, r.total, db)
    /\ UNCHANGED <<db, minted, utc>>

TaskService_get_user_tasks(user_id, limit, offset, status) ==
    /\ req' = NoReq
    /\ DoList("service", user_id, limit, offset, status)

\* GET /api/v1/tasks
api_list_tasks(header, limit, offset, status) ==
    LET r == Resolve(TasksPath, header, utc)
    IN  /\ req' = [path |-> TasksPath, header |-> header,
                   body_user_id |-> None, at |-> utc]
        /\ IF ~r.forward
             THEN Rejected("list_tasks", "",
                           [title |-> None, description |-> None,
                            status |-> status, limit |-> limit,
                            offset |-> offset], r)
             ELSE DoList("endpoint", r.user_id, limit, offset, status)

\* get: TaskService.get_task_by_id
DoGet(level, user_id, task_id) ==
    /\ Request
    /\ LET r == svc_get_task_by_id(KindOf(level), db, user_id, task_id)
           h == StatusOf(level, "get_task", r.out, "")
       IN  resp' = Resp("get_task", level, user_id, task_id, NoData, r.out,
                        h.status, h.detail, r.res, <<>>, 0, db)
    /\ UNCHANGED <<db, minted, utc>>

TaskService_get_task_by_id(user_id, task_id) ==
    /\ req' = NoReq
    /\ DoGet("service", user_id, task_id)

\* GET /api/v1/tasks/{task_id}
api_get_task(header, task_id) ==
    LET r == Resolve(TaskPath, header, utc)
    IN  /\ req' = [path |-> TaskPath, header |-> header,
                   body_user_id |-> None, at |-> utc]
        /\ IF ~r.forward THEN Rejected("get_task", task_id, NoData, r)
             ELSE DoGet("endpoint", r.user_id, task_id)

\* update: TaskService.update_task and the commit or rollback of its caller
DoUpdate(level, user_id, task_id, data) ==
    /\ Request
    /\ \E t \in utc_now(utc) :
         LET r == svc_update_task(KindOf(level), db, user_id, task_id, data, t)
             h == StatusOf(level, "update_task", r.out, r.detail)
         IN  /\ resp' = Resp("update_task", level, user_id, task_id, data,
                             r.out, h.status, h.detail, r.res, <<>>, 0, db)
             /\ IF r.out = "Task"
                  THEN /\ db' = commit_add(db, CHOOSE x \in r.res : TRUE)
                       /\ utc' = t
                  ELSE /\ t = utc
                       /\ db' = rollback(db, r.dirty)
                       /\ utc' = utc
    /\ UNCHANGED minted

TaskService_update_task(user_id, task_id, data) ==
    /\ req' = NoReq
    /\ DoUpdate("service", user_id, task_id, data)

\* TaskUpdate rejects the request body (422)
TaskUpdate_invalid(data) ==
    \/ data.title.some /\ (Len(data.title.v) < 1 \/ Len(data.title.v) > TitleMax)
    \/ data.description.some /\ Len(data.description.v) > DescMax
    \/ data.status.some /\ data.status.v \notin TaskStatus

\* PATCH /api/v1/tasks/{task_id}, the body carrying the fields of data and
\* possibly a user_id (TaskUpdate has no such field)
api_update_task(header, body_user_id, task_id, data) ==
    LET r == Resolve(TaskPath, header, utc)
    IN  /\ req' = [path |-> TaskPath, header |-> header,
                   body_user_id |-> body_user_id, at |-> utc]
        /\ IF ~r.forward THEN Rejected("update_task", task_id, data, r)
           ELSE IF TaskUpdate_invalid(data)
             THEN /\ Request
                  /\ resp' = Resp("update_task", "endpoint", r.user_id,
                                  task_id, data, "", 422, "validation error",
                                  {}, <<>>, 0, db)
                  /\ UNCHANGED <<db, minted, utc>>
           ELSE DoUpdate("endpoint", r.user_id, task_id, data)

\* delete: TaskService.delete_task and the commit or rollback of its caller
DoDelete(level, user_id, task_id) ==
    /\ Request
    /\ LET r == svc_delete_task(KindOf(level), db, user_id, task_id)
           h == StatusOf(level, "delete_task", r.out, "")
       IN  /\ resp' = Resp("delete_task", level, user_id, task_id, NoData,
                           r.out, h.status, h.detail, r.res, <<>>, 0, db)
           /\ db' = IF r.out = "True"
                      THEN commit_delete(db, CHOOSE x \in r.res : TRUE)
                      ELSE db
    /\ UNCHANGED <<minted, utc>>

TaskService_delete_task(user_id, task_id) ==
    /\ req' = NoReq
    /\ DoDelete("service", user_id, task_id)

\* DELETE /api/v1/tasks/{task_id}
api_delete_task(header, task_id) ==
    LET r == Resolve(TaskPath, header, utc)
    IN  /\ req' = [path |-> TaskPath, header |-> header,
                   body_user_id |-> None, at |-> utc]
        /\ IF ~r.forward THEN Rejected("delete_task", task_id, NoData, r)
             ELSE DoDelete("endpoint", r.user_id, task_id)

NextP2 ==
    \/ \E u \in Users, title \in P2Titles, d \in P2Descs, st \in P2Statuses :
         TaskService_create_task(u, title, d, st)
    \/ \E rq \in CreateRequests :
         api_create_task(rq.header, rq.body_user_id, rq.title, rq.description,
                         rq.status)
    \/ \E u \in Users, q \in P2ListQueries :
         TaskService_get_user_tasks(u, q.limit, q.offset, q.status)
    \/ \E rq \in ListRequests :
         api_list_tasks(rq.header, rq.q.limit, rq.q.offset, rq.q.status)
    \/ \E u \in Users, task_id \in TaskIds : TaskService_get_task_by_id(u, task_id)
    \/ \E rq \in TaskRequests : api_get_task(rq.header, rq.task_id)
    \/ \E u \in Users, task_id \in TaskIds, data \in P2UpdateData :
         TaskService_update_task(u, task_id, data)
    \/ \E rq \in UpdateRequests :
         api_update_task(rq.header, rq.body_user_id, rq.task_id, rq.data)
    \/ \E u \in Users, task_id \in TaskIds : TaskService_delete_task(u, task_id)
    \/ \E rq \in TaskRequests : api_delete_task(rq.header, rq.task_id)
    \/ \E rq \in AuthRequests : auth_request(rq.path, rq.header)

(***************************************************************************)
(* Requests in flight (api/v1/tasks.py, services/task_service.py): each    *)
(* request has a session of its own (db/session.py); the service call and  *)
(* the handler's commit are two steps, and other connections act between   *)
(* them. No statement locks the row (no with_for_update, no version        *)
(* column), so the row read by the lookup can be gone at the commit.       *)
(***************************************************************************)
\* number of requests in flight at once
MaxConn == 2
Conns == 1..MaxConn

\* a connection that carries no request yet
Idle ==
    [pc |-> "idle", op |-> "", level |-> "", user |-> "", task_id |-> "",
     data |-> NoData, loaded |-> {}, pending |-> {}, out |-> "", status |-> 0,
     vanished |-> FALSE]

InitTxn == txn = [c \in Conns |-> Idle]

\* the bodies of the PATCH requests in flight
TxnUpdateData ==
    {[NoData EXCEPT !.title = Some(<<"z">>), !.description = Some(<<"e">>)],
     [NoData EXCEPT !.status = Some("Completed")],
     [NoData EXCEPT !.title = Some(<<"z">>), !.status = Some("Done")]}

\* a flush that inserts the row when the UPDATE matches none
flush_update_upsert(d, loaded, row) ==
    [out |-> "ok", d |-> commit_add(d, row)]

\* the flush of session.commit() for a modified object: UPDATE task SET
\* <the attributes modified since the load> WHERE id = :id; when the
\* statement matches no row the unit of work raises StaleDataError
flush_update(d, loaded, row) ==
    IF row.id \notin DOMAIN d THEN [out |-> "StaleDataError", d |-> d]
    ELSE [out |-> "ok",
          d |-> [d EXCEPT ![row.id] =
                   [f \in DOMAIN row |-> IF row[f] # loaded[f] THEN row[f]
                                         ELSE d[row.id][f]]]]

\* the handler of PATCH up to its commit: TaskService.update_task on the
\* request's session; it ends the request unless a task was returned
update_task_call(c, level, user_id, task_id, data) ==
    /\ txn[c].pc = "idle"
    /\ \E t \in utc_now(utc) :
         LET r == svc_update_task(KindOf(level), db, user_id, task_id, data, t)
             h == StatusOf(level, "update_task", r.out, r.detail)
             rq == [Idle EXCEPT !.op = "update_task", !.level = level,
                                !.user = user_id, !.task_id = task_id,
                                !.data = data, !.out = r.out]
         IN  /\ r.out # "Task" => t = utc
             /\ utc' = t
             /\ txn' = [txn EXCEPT ![c] =
                  IF r.out = "Task"
                    THEN [rq EXCEPT !.pc = "called", !.loaded = {db[task_id]},
                                    !.pending = r.res]
                    ELSE [rq EXCEPT !.pc = "done", !.status = h.status]]
    /\ UNCHANGED <<db, minted, resp, nreq, req, varsP1, varsAuth>>

\* await session.commit() of the PATCH handler, and the rollback of its
\* except clause when the flush raises
update_task_commit(c) ==
    /\ txn[c].pc = "called"
    /\ txn[c].op = "update_task"
    /\ LET row == CHOOSE x \in txn[c].pending : TRUE
           loaded == CHOOSE x \in txn[c].loaded : TRUE
           f == flush_update(db, loaded, row)
           out == IF f.out = "ok" THEN "Task" ELSE f.out
           h == StatusOf(txn[c].level, "update_task", out, "")
       IN  /\ db' = IF f.out = "ok" THEN f.d ELSE rollback(db, txn[c].pending)
           /\ txn' = [txn EXCEPT ![c] =
                        [@ EXCEPT !.pc = "done", !.out = out,
                                  !.status = h.status,
                                  !.vanished = row.id \notin DOMAIN db]]
    /\ UNCHANGED <<minted, utc, resp, nreq, req, varsP1, varsAuth>>

\* the handler of DELETE up to its commit: TaskService.delete_task
delete_task_call(c, level, user_id, task_id) ==
    /\ txn[c].pc = "idle"
    /\ LET r == svc_delete_task(KindOf(level), db, user_id, task_id)
           h == StatusOf(level, "delete_task", r.out, "")
           rq == [Idle EXCEPT !.op = "delete_task", !.level = level,
                              !.user = user_id, !.task_id = task_id,
                              !.out = r.out]
       IN  txn' = [txn EXCEPT ![c] =
             IF r.out = "True"
               THEN [rq EXCEPT !.pc = "called", !.loaded = r.res,
                               !.pending = r.res]
               ELSE [rq EXCEPT !.pc = "done", !.status = h.status]]
    /\ UNCHANGED <<db, minted, utc, resp, nreq, req, varsP1, varsAuth>>

\* await session.commit() of the DELETE handler: DELETE FROM task WHERE
\* id = :id; a statement that matches no row is reported by the unit of work
\* as a warning (the mapper has no version column) and the commit succeeds
delete_task_commit(c) ==
    /\ txn[c].pc = "called"
    /\ txn[c].op = "delete_task"
    /\ LET row == CHOOSE x \in txn[c].pending : TRUE
           h == StatusOf(txn[c].level, "delete_task", "True", "")
       IN  /\ db' = commit_delete(db, row)
           /\ txn' = [txn EXCEPT ![c] =
                        [@ EXCEPT !.pc = "done", !.out = "True",
                                  !.status = h.status,
                                  !.vanished = row.id \notin DOMAIN db]]
    /\ UNCHANGED <<minted, utc, resp, nreq, req, varsP1, varsAuth>>

\* tasks are created by whole requests; updates and deletes are in flight
NextTxn ==
    \/ \E u \in Users : TaskService_create_task(u, <<" ", "x">>, None, "Pending")
    \/ \E c \in Conns, level \in {"service", "endpoint"}, u \in Users,
          task_id \in TaskIds, data \in TxnUpdateData :
         update_task_call(c, level, u, task_id, data)
    \/ \E c \in Conns : update_task_commit(c)
    \/ \E c \in Conns, level \in {"service", "endpoint"}, u \in Users,
          task_id \in TaskIds :
         delete_task_call(c, level, u, task_id)
    \/ \E c \in Conns : delete_task_commit(c)

(***************************************************************************)
(* AuthService (services/auth_service.py) with the commit of its callers   *)
(* (api/v1/auth.py)                                                        *)
(***************************************************************************)
\* number of AuthService calls of a run
MaxAuth == 5
\* the last reading of the clock
MaxAuthClock == 3
\* lifetime of an access token in clock readings (stands for
\* JWT_ACCESS_TOKEN_EXPIRE_SECONDS = 3600)
AccessTTL == 1
\* lifetime of a refresh token in clock readings (stands for
\* JWT_REFRESH_TOKEN_EXPIRE_SECONDS = 2592000)
RefreshTTL == 2
\* the length bounds of the email check of register_user
EmailMin == 5
EmailMax == 255

\* emails and passwords a caller may send
Emails ==
    {<<"a", "@", "b", ".", "c">>, <<"A", "@", "b", ".", "c">>,
     <<"b", "@", "b", ".", "c">>, <<"a", "@", "b">>,
     <<"a", "b", "c", "d", "e">>}
Passwords == {"p", "q"}

\* email compared as written
lower_kept(s) == s

\* str.lower() on the characters of Emails
lower(s) ==
    [i \in 1..Len(s) |-> CASE s[i] = "A" -> "a"
                           [] s[i] = "B" -> "b"
                           [] OTHER -> s[i]]

\* hash_password and verify_password: bcrypt verifies exactly the password
\* that was hashed
hash_password(password) == <<"bcrypt", password>>
verify_password(plain_password, hashed_password) ==
    hashed_password = hash_password(plain_password)

\* jwt.encode(payload, key): a token is its payload and the key it is
\* signed with; sub is {} for a payload without the claim
jwt_encode(sub, iat, exp, key) ==
    [key |-> key, sub |-> sub, iat |-> iat, exp |-> exp]

\* jwt.decode(token, key, algorithms) of refresh_access_token
jwt_decode_payload(token, key, t_now) ==
    IF token.key # key \/ token.exp < t_now
      THEN [error |-> TRUE, sub |-> {}]
    ELSE [error |-> FALSE, sub |-> token.sub]

\* _generate_access_token and _generate_refresh_token: the same payload
\* {sub, iat, exp}, only the lifetime differs
generate_access_token(user_id, t_now) ==
    jwt_encode({user_id}, t_now, t_now + AccessTTL, better_auth_secret)
generate_refresh_token(user_id, t_now) ==
    jwt_encode({user_id}, t_now, t_now + RefreshTTL, better_auth_secret)

\* tokens not made by the service: signed with another key, or without sub
ForeignTokens ==
    {jwt_encode({"A"}, 0, FarExp, "other"),
     jwt_encode({}, 0, FarExp, better_auth_secret)}

\* every token a caller can hold: those the service can have made, and the
\* foreign ones
Tokens ==
    {jwt_encode({u}, t, t + ttl, better_auth_secret) :
        u \in Users, t \in 0..MaxAuthClock, ttl \in {AccessTTL, RefreshTTL}}
    \cup ForeignTokens

\* result.scalar_one_or_none(): MultipleResultsFound for more than one row
scalar_one_or_none(rows) ==
    [raised |-> Cardinality(rows) > 1, row |-> rows]

\* a logout that leaves the records as they are
revoke_skipped(recs, user_id, t_now) == recs

\* logout_user's loop: every unrevoked record of the user gets revoked_at
revoke(recs, user_id, t_now) ==
    {IF r.user_id = user_id /\ r.revoked_at = {}
       THEN [r EXCEPT !.revoked_at = {t_now}] ELSE r : r \in recs}

\* the record of a call of the service: operation, arguments, outcome,
\* returned tokens, the user table before the call
AuthCallRec(op, email, token, user, out, res, pre) ==
    [op |-> op, email |-> email, token |-> token, user |-> user, out |-> out,
     res |-> res, pre |-> pre]

InitAuth ==
    /\ users = {}
    /\ refresh_tokens = {}
    /\ handed = {}
    /\ logouts = [u \in Users |-> "never"]
    /\ clock = 0
    /\ auth = AuthCallRec("init", <<>>, {}, "", "", {}, {})
    /\ nauth = 0

\* one more call of the service
AuthCall ==
    /\ nauth < MaxAuth
    /\ nauth' = nauth + 1
    /\ UNCHANGED <<varsP1, varsP2, varsTxn>>

\* time passes between calls
advance_clock ==
    /\ clock < MaxAuthClock
    /\ clock' = clock + 1
    /\ UNCHANGED <<varsP1, varsP2, varsTxn, users, refresh_tokens, handed,
                   logouts, auth, nauth>>

\* AuthService.register_user and the commit of register
register_user(email, password) ==
    /\ AuthCall
    /\ LET existing_user ==
             scalar_one_or_none({u \in users : u.email = lower(email)})
       IN  IF email = <<>> \/ (\A i \in 1..Len(email) : email[i] # "@")
              \/ Len(email) < EmailMin
              \/ Len(email) > EmailMax
             THEN /\ auth' = AuthCallRec("register_user", email, {}, "",
                                         "InvalidCredentialsError", {}, users)
                  /\ users' = users
           ELSE IF existing_user.row # {}
             THEN /\ auth' = AuthCallRec("register_user", email, {}, "",
                                         "UserExistsError", {}, users)
                  /\ users' = users
           ELSE \E id \in Users \ {u.id : u \in users} :
                  /\ users' = users \cup
                        {[id |-> id, email |-> lower(email),
                          password_hash |-> hash_password(password)]}
                  /\ auth' = AuthCallRec("register_user", email, {}, id,
                                         "User", {}, users)
    /\ UNCHANGED <<refresh_tokens, handed, logouts, clock>>

\* AuthService.login_user with _store_refresh_token, and the commit of login
login_user(email, password) ==
    /\ AuthCall
    /\ LET found == scalar_one_or_none({u \in users : u.email = lower(email)})
           user == CHOOSE u \in found.row : TRUE
           access_token == generate_access_token(user.id, clock)
           refresh_token == generate_refresh_token(user.id, clock)
       IN  IF found.row = {} \/ ~verify_password(password, user.password_hash)
             THEN /\ auth' = AuthCallRec("login_user", email, {}, "",
                                         "InvalidCredentialsError", {}, users)
                  /\ UNCHANGED <<refresh_tokens, handed, logouts>>
           ELSE /\ refresh_tokens' = refresh_tokens \cup
                      {[id |-> Cardinality(refresh_tokens) + 1,
                        user_id |-> user.id, token_hash |-> refresh_token,
                        expires_at |-> refresh_token.exp, revoked_at |-> {}]}
                /\ handed' = handed \cup
                      {[token |-> access_token, kind |-> "access",
                        user |-> user.id],
                       [token |-> refresh_token, kind |-> "refresh",
                        user |-> user.id]}
                /\ logouts' = [logouts EXCEPT ![user.id] =
                                 IF @ = "never" THEN @ ELSE "in_again"]
                /\ auth' = AuthCallRec("login_user", email, {}, user.id,
                                       "tokens",
                                       {access_token, refresh_token}, users)
    /\ UNCHANGED <<users, clock>>

\* AuthService.refresh_access_token and the commit of refresh
\* (a caller presents a token it was handed, or a foreign one)
refresh_access_token(refresh_token) ==
    /\ refresh_token \in {h.token : h \in handed} \cup ForeignTokens
    /\ AuthCall
    /\ LET payload == jwt_decode_payload(refresh_token, better_auth_secret,
                                         clock)
           user_id == CHOOSE u \in payload.sub : TRUE
           token_record ==
             scalar_one_or_none({r \in refresh_tokens :
                                   /\ r.user_id = user_id
                                   /\ r.revoked_at = {}
                                   /\ r.expires_at > clock})
           new_access_token == generate_access_token(user_id, clock)
           failed == \/ payload.error
                     \/ payload.sub = {}
                     \/ token_record.raised
                     \/ token_record.row = {}
       IN  IF failed
             THEN /\ auth' = AuthCallRec("refresh_access_token", <<>>,
                                         {refresh_token}, "",
                                         "UnauthorizedError", {}, users)
                  /\ handed' = handed
           ELSE /\ auth' = AuthCallRec("refresh_access_token", <<>>,
                                       {refresh_token}, user_id, "token",
                                       {new_access_token}, users)
                /\ handed' = handed \cup
                      {[token |-> new_access_token, kind |-> "access",
                        user |-> user_id]}
    /\ UNCHANGED <<users, refresh_tokens, logouts, clock>>

\* AuthService.logout_user and the commit of logout
logout_user(user_id) ==
    /\ AuthCall
    /\ refresh_tokens' = revoke(refresh_tokens, user_id, clock)
    /\ logouts' = [logouts EXCEPT ![user_id] = "out"]
    /\ auth' = AuthCallRec("logout_user", <<>>, {}, user_id, "None", {}, users)
    /\ UNCHANGED <<users, handed, clock>>

NextAuth ==
    \/ advance_clock
    \/ \E email \in Emails, password \in Passwords :
         register_user(email, password)
    \/ \E email \in Emails, password \in Passwords : login_user(email, password)
    \/ \E t \in Tokens : refresh_access_token(t)
    \/ \E u \in Users : logout_user(u)

Init == InitP1 /\ InitP2 /\ InitTxn /\ InitAuth

SpecP1 == Init /\ [][NextP1]_vars

SpecP2 == Init /\ [][NextP2]_vars

\* the two variants are separate programs: a run is a run of the console
\* application or a run of the backend
NextVariants ==
    \/ nreq = 0 /\ NextP1
    \/ nops = 0 /\ NextP2

SpecVariants == Init /\ [][NextVariants]_vars

SpecTxn == Init /\ [][NextTxn]_vars

SpecAuth == Init /\ [][NextAuth]_vars

(***************************************************************************)
(* Properties of the single-tenant store                                   *)
(***************************************************************************)
StorageOps == {"get_task", "update_task", "mark_complete", "delete_task"}
CliOps == {"cmd_complete", "cmd_update", "cmd_delete"}

\* the stored ids the identifier x is a prefix of
PrefixMatches(ts, x) == {i \in DOMAIN ts : startswith(i, x)}

\* every task of ts other than the one with id x is in the store unchanged
OthersUnchanged(ts, x) ==
    \A i \in DOMAIN ts \ {x} : i \in DOMAIN tasks /\ tasks[i] = ts[i]

\* C3: no id is returned by add_task twice over the lifetime of the store,
\* deleted tasks included, and add_task leaves every task already stored in
\* place.
Thm_C3_IdsNeverReused ==
    /\ \A i \in Ids : addCount[i] <= 1
    /\ (last.op = "add_task" /\ last.out = "Task") =>
          /\ \A t \in last.res : t.id \notin DOMAIN last.pre
          /\ \A i \in DOMAIN last.pre : i \in DOMAIN tasks /\ tasks[i] = last.pre[i]

\* an add_task that succeeded after a task had been deleted
Wit_C3_AddAfterDelete ==
    /\ last.op = "add_task" /\ last.out = "Task"
    /\ \E i \in Ids : delCount[i] = 1

\* C4: right after a successful add_task, get_task of the returned id gives
\* the returned record, field for field.
Thm_C4_CreateGetRoundTrip ==
    (last.op = "add_task" /\ last.out = "Task") =>
        \A t \in last.res :
            /\ get_task_of(tasks, t.id).out = "Task"
            /\ get_task_of(tasks, t.id).res = {t}

\* an add_task that succeeded in a store that already held a task
Wit_C4_AddToNonEmptyStore ==
    /\ last.op = "add_task" /\ last.out = "Task"
    /\ DOMAIN last.pre # {}

\* C5: every stored title is non-empty, not whitespace-only and carries no
\* leading or trailing whitespace.
Thm_C5_StoredTitlesTrimmed ==
    \A i \in DOMAIN tasks :
        /\ tasks[i].title # <<>>
        /\ ~blank(tasks[i].title)
        /\ strip(tasks[i].title) = tasks[i].title

\* an update that supplied a padded title and succeeded
Wit_C5_PaddedTitleUpdated ==
    /\ last.op = "update_task" /\ last.out = "Task"
    /\ last.title = Some(<<" ", "z", " ">>)

\* C6: an empty or whitespace-only title makes add_task fail with the
\* validation error and add nothing, and makes update_task of an existing
\* task fail with the validation error and leave the task as it was.
Thm_C6_RejectedTitleChangesNothing ==
    /\ (last.op = "add_task" /\ blank(last.title.v)) =>
          /\ last.out = "ValueError" /\ last.msg = EmptyTitleMsg
          /\ tasks = last.pre
    /\ (/\ last.op = "update_task"
        /\ last.title.some /\ blank(last.title.v)
        /\ _find_task_id(last.pre, last.arg).out = "id") =>
          /\ last.out = "ValueError" /\ last.msg = EmptyTitleMsg
          /\ tasks = last.pre

\* an update of an existing task with a blank title and a new description
Wit_C6_BlankTitleWithDescription ==
    /\ last.op = "update_task"
    /\ last.title.some /\ blank(last.title.v)
    /\ last.desc.some
    /\ _find_task_id(last.pre, last.arg).out = "id"

\* X[:ShortLen] is a prefix of no stored id but X
UniqueShort(ts, X) == PrefixMatches(ts, slice(X, ShortLen)) = {X}

\* C8: when no other stored id starts with X[:ShortLen], get_task of the
\* short id returns the task get_task of X returns, and update_task,
\* mark_complete and delete_task addressed by the short id act on X only.
Thm_C8_UniquePrefixResolves ==
    /\ \A X \in DOMAIN tasks :
          UniqueShort(tasks, X) =>
            /\ get_task_of(tasks, slice(X, ShortLen)) = get_task_of(tasks, X)
            /\ get_task_of(tasks, X).res = {tasks[X]}
    /\ \A X \in DOMAIN last.pre :
          (UniqueShort(last.pre, X) /\ last.arg = slice(X, ShortLen)) =>
            /\ last.op = "delete_task" =>
                  /\ last.out = "True"
                  /\ DOMAIN tasks = DOMAIN last.pre \ {X}
                  /\ OthersUnchanged(last.pre, X)
            /\ last.op = "mark_complete" =>
                  /\ last.out = "Task"
                  /\ last.res = {tasks[X]}
                  /\ tasks[X].id = X
                  /\ tasks[X].completed = ~last.pre[X].completed
                  /\ DOMAIN tasks = DOMAIN last.pre
                  /\ OthersUnchanged(last.pre, X)
            /\ (last.op = "update_task" /\ ~Task_update_raises(last.title)) =>
                  /\ last.out = "Task"
                  /\ last.res = {tasks[X]}
                  /\ tasks[X] = Task_update(last.pre[X], last.title, last.desc,
                                            tasks[X].updated_at)
                  /\ DOMAIN tasks = DOMAIN last.pre
                  /\ OthersUnchanged(last.pre, X)

\* an update addressed by a short id while two tasks were stored
Wit_C8_UpdateByShortId ==
    /\ last.op = "update_task" /\ last.out = "Task"
    /\ Len(last.arg) = ShortLen /\ ShortLen < IdLen
    /\ Cardinality(DOMAIN last.pre) = 2

\* the identifier x is not a stored id and is a prefix of several stored ids
Ambiguous(ts, x) == x \notin DOMAIN ts /\ Cardinality(PrefixMatches(ts, x)) >= 2

\* what the CLI commands do on an ambiguous identifier: False, the error
\* text of the ambiguity and no "not found"
CliAmbiguous ==
    (last.op \in CliOps /\ Ambiguous(last.pre, strip(last.arg))
       /\ strip(last.arg) # <<>>) =>
        /\ last.out = "False"
        /\ last.msg = AmbiguousMsg(strip(last.arg))
        /\ tasks = last.pre

\* C9 as stated: every identifier that is not a stored id and is a prefix
\* of two or more stored ids makes the four store operations fail with the
\* ambiguity error and change nothing, and makes the CLI commands return
\* False without reporting "not found".
Orig_C9_AmbiguousAlwaysReported ==
    /\ (last.op \in StorageOps /\ Ambiguous(last.pre, last.arg)) =>
          /\ last.out = "ValueError"
          /\ last.msg = AmbiguousMsg(last.arg)
          /\ tasks = last.pre
    /\ (last.op \in CliOps /\ Ambiguous(last.pre, strip(last.arg))) =>
          /\ last.out = "False"
          /\ last.msg # NotFoundMsg(strip(last.arg))
          /\ tasks = last.pre

\* C9 amended: the same for every non-empty identifier (the empty string is
\* a prefix of every id and is answered not-found).
Thm_C9_NonEmptyAmbiguousReported ==
    /\ (last.op \in StorageOps /\ Ambiguous(last.pre, last.arg)
          /\ last.arg # <<>>) =>
          /\ last.out = "ValueError"
          /\ last.msg = AmbiguousMsg(last.arg)
          /\ tasks = last.pre
    /\ (last.op \in CliOps /\ Ambiguous(last.pre, strip(last.arg))) =>
          /\ last.out = "False"
          /\ last.msg # NotFoundMsg(strip(last.arg))
          /\ tasks = last.pre
    /\ CliAmbiguous

\* a delete_task addressed by a non-empty ambiguous identifier
Wit_C9_AmbiguousDelete ==
    /\ last.op = "delete_task"
    /\ last.arg # <<>>
    /\ Ambiguous(last.pre, last.arg)

Toggled ==
    \/ last.op = "mark_complete" /\ last.out = "Task"
    \/ last.op = "cmd_complete" /\ last.out = "True"

\* C11: a new task has completed = FALSE, every mark_complete that finds the
\* task flips completed, and after n toggles since creation completed is TRUE
\* exactly when n is odd (so two toggles in a row restore it).
Thm_C11_ToggleParity ==
    /\ \A i \in DOMAIN tasks :
          tasks[i].completed <=> (toggleCount[i] % 2 = 1)
    /\ (last.op = "add_task" /\ last.out = "Task") =>
          \A r \in last.res : ~r.completed
    /\ Toggled =>
          \A r \in last.res :
            /\ r.completed = ~last.pre[r.id].completed
            /\ tasks[r.id] = r

\* the second of two toggles of one task has restored completed = FALSE
Wit_C11_ToggledTwice ==
    /\ Toggled
    /\ \E r \in last.res : toggleCount[r.id] = 2 /\ ~r.completed

\* the last call updated a task: update_task or the update command succeeded
Updated ==
    \/ last.op = "update_task" /\ last.out = "Task"
    \/ last.op = "cmd_update" /\ last.out = "True"

\* C12: every successful mark_complete and update_task leaves the task with
\* an updated_at strictly later than the one it had before the call.
Orig_C12_UpdatedAtStrictlyLater ==
    (Toggled \/ Updated) =>
        \A r \in last.res : r.updated_at > last.pre[r.id].updated_at

(***************************************************************************)
(* Properties of the multi-tenant store                                    *)
(***************************************************************************)
\* the caller user does not own a row with id task_id in table d
NotOwned(d, task_id, user) ==
    task_id \notin DOMAIN d \/ d[task_id].user_id # user

\* C1: a task of one user is never returned to another user by
\* get_task_by_id or get_user_tasks, and update_task or delete_task called by
\* another user leaves it in the table unchanged, also when its exact id is
\* supplied.
Thm_C1_TenantIsolation ==
    /\ \A r \in resp.res : r.user_id = resp.user
    /\ \A k \in 1..Len(resp.list) : resp.list[k].user_id = resp.user
    /\ \A i \in DOMAIN resp.pre :
          resp.pre[i].user_id # resp.user =>
            i \in DOMAIN db /\ db[i] = resp.pre[i]
    /\ \A kind \in SessionKinds, u \in Users, t \in TaskIds :
          \A r \in svc_get_task_by_id(kind, db, u, t).res : r.user_id = u

\* an update addressed by another user to the exact id of a stored task
Wit_C1_ForeignUpdateByExactId ==
    /\ resp.op = "update_task" /\ resp.level = "service"
    /\ resp.data.title.some
    /\ resp.arg \in DOMAIN resp.pre
    /\ resp.pre[resp.arg].user_id # resp.user

\* C2: get, update and delete of an id the caller does not own answer as
\* for an id stored for nobody: the service returns None or False and the
\* endpoint answers 404 "Task not found".
Orig_C2_ForeignIsNotFound ==
    (/\ resp.op \in {"get_task", "update_task", "delete_task"}
     /\ resp.status \notin {401, 422}
     /\ NotOwned(resp.pre, resp.arg, resp.user)) =>
        /\ db = resp.pre
        /\ resp.level = "service" => resp.out \in {"None", "False"}
        /\ resp.level = "endpoint" =>
              resp.status = 404 /\ resp.detail = "Task not found"

\* C7: every title in the table is non-empty, not whitespace-only and
\* without leading or trailing whitespace, and a create or update whose title
\* is whitespace-only fails with a validation error.
Orig_C7_TitlesTrimmedAndBlankRejected ==
    /\ \A i \in DOMAIN db :
          /\ ~blank(db[i].title)
          /\ strip(db[i].title) = db[i].title
    /\ (/\ resp.op \in {"create_task", "update_task"}
        /\ resp.data.title.some
        /\ resp.data.title.v # <<>>
        /\ blank(resp.data.title.v)
        /\ resp.op = "update_task" => ~NotOwned(resp.pre, resp.arg, resp.user)
        /\ resp.level = "service") =>
          resp.out = "ValueError"
(***************************************************************************)
(* Properties of both variants                                             *)
(***************************************************************************)
\* the last request updated a row
P2Updated == resp.op = "update_task" /\ resp.out = "Task"

\* C13: a successful update changes exactly the supplied fields: a supplied
\* title, description or status takes the new value, an omitted one keeps
\* its prior value, completed is not changed, and updated_at is set to the
\* time of the call, also when no field is supplied.
Thm_C13_PartialUpdate ==
    /\ Updated =>
          \A r \in last.res :
            LET o == last.pre[r.id]
            IN  /\ tasks[r.id] = r
                /\ r.title = IF last.title.some THEN strip(last.title.v)
                              ELSE o.title
                /\ r.description = IF last.desc.some THEN last.desc.v
                                    ELSE o.description
                /\ r.completed = o.completed
                /\ r.updated_at = now
    /\ P2Updated =>
          \A r \in resp.res :
            LET o == resp.pre[resp.arg]
            IN  /\ db[resp.arg] = r
                /\ r.title = IF resp.data.title.some THEN resp.data.title.v
                              ELSE o.title
                /\ r.description = IF resp.data.description.some
                                      THEN resp.data.description
                                      ELSE o.description
                /\ r.status = IF resp.data.status.some THEN resp.data.status.v
                               ELSE o.status
                /\ r.updated_at = utc

\* an update that supplies no field has succeeded on a task whose clock
\* reading has moved since the task was written
Wit_C13_UpdateWithoutFields ==
    /\ last.op = "update_task" /\ last.out = "Task"
    /\ ~last.title.some /\ ~last.desc.some
    /\ \E r \in last.res : r.updated_at > last.pre[r.id].updated_at
\* the caller of the last request owns the row it addressed
Owned == resp.arg \in DOMAIN resp.pre /\ resp.pre[resp.arg].user_id = resp.user

\* C14: an update of an owned task that fails validation on any supplied
\* field changes no stored field, and a later read of the task returns the
\* values it had before the request.
Thm_C14_FailedUpdateChangesNothing ==
    (/\ resp.op = "update_task" /\ Owned
     /\ resp.out = "ValueError" \/ resp.status \in {400, 422}) =>
        /\ db = resp.pre
        /\ svc_get_task_by_id("Session", db, resp.user, resp.arg).res
             = {resp.pre[resp.arg]}

\* an update with a valid new title and an invalid status has failed
Wit_C14_ValidTitleInvalidStatus ==
    /\ resp.op = "update_task" /\ Owned
    /\ resp.out = "ValueError"
    /\ resp.data.title.some /\ ~TitleInvalid(resp.data.title.v)
    /\ resp.data.title.v # resp.pre[resp.arg].title
    /\ resp.data.status.some /\ resp.data.status.v \notin TaskStatus
\* C15: a stored task keeps the id and created_at (and, in the multi-tenant
\* variant, the user_id) it was created with: no step changes them for a task
\* that stays stored, and every task is stored under its own id.
Thm_C15_IdentityFieldsImmutable ==
    [][/\ \A i \in DOMAIN tasks' : tasks'[i].id = i
       /\ \A i \in DOMAIN tasks \cap DOMAIN tasks' :
             /\ tasks'[i].id = tasks[i].id
             /\ tasks'[i].created_at = tasks[i].created_at
       /\ \A i \in DOMAIN db' : db'[i].id = i
       /\ \A i \in DOMAIN db \cap DOMAIN db' :
             /\ db'[i].id = db[i].id
             /\ db'[i].user_id = db[i].user_id
             /\ db'[i].created_at = db[i].created_at]_vars

\* an update has rewritten the title of a task at a later clock reading than
\* the one the task was created at
Wit_C15_UpdatedLaterThanCreated ==
    /\ Updated
    /\ \E r \in last.res :
          /\ r.title # last.pre[r.id].title
          /\ r.updated_at > r.created_at
          /\ r.created_at = last.pre[r.id].created_at
\* the rows of table d that user owns and that pass the status filter
Matching(d, user, status) ==
    {r \in Rows(d) :
       /\ r.user_id = user
       /\ (status.some /\ status.v # "") => r.status = status.v}

\* list is a page of the rows of m in descending created_at order: limit rows
\* at most, after the first offset rows
IsPage(list, m, limit, offset) ==
    /\ \A k \in 1..Len(list) : list[k] \in m
    /\ \A j, k \in 1..Len(list) : j < k => list[j] # list[k]
    /\ \A j, k \in 1..Len(list) :
          j < k => list[j].created_at >= list[k].created_at
    /\ Len(list) = IF Cardinality(m) <= offset THEN 0
                    ELSE IF Cardinality(m) - offset <= limit
                      THEN Cardinality(m) - offset
                    ELSE limit
    /\ \A k \in 1..Len(list) :
          /\ Cardinality({r \in m : r.created_at > list[k].created_at})
               <= offset + k - 1
          /\ Cardinality({r \in m : r.created_at >= list[k].created_at})
               >= offset + k

\* the last request was a list request of a verified caller with a valid
\* status filter
ListedValid ==
    /\ resp.op = "list_tasks"
    /\ resp.status # 401
    /\ resp.data.status.some /\ resp.data.status.v # ""
         => resp.data.status.v \in TaskStatus

\* C16: a list request returns the caller's tasks that match the status
\* filter in descending created_at order, without the first offset of them and
\* limit of them at most, and the total is the number of the caller's
\* matching tasks.
Orig_C16_ListReturnsCallersPage ==
    ListedValid =>
        /\ resp.out = "Tasks"
        /\ IsPage(resp.list,
                  Matching(resp.pre, resp.user, resp.data.status),
                  resp.data.limit, resp.data.offset)
        /\ resp.total
             = Cardinality(Matching(resp.pre, resp.user, resp.data.status))
(***************************************************************************)
(* Properties of the identity resolver                                     *)
(***************************************************************************)
\* the token of a header of the form "Bearer <token>", "" for any other
HeaderToken(h) ==
    IF /\ h.some
       /\ Len(h.v) = Len(BEARER_PREFIX) + 1
       /\ SubSeq(h.v, 1, Len(BEARER_PREFIX)) = BEARER_PREFIX
      THEN h.v[Len(BEARER_PREFIX) + 1]
    ELSE ""

\* the credential of header h fails verification at time t: no header or
\* not "Bearer ", not a token, signed with another key, expired, or no sub
CredFails(h, t) ==
    LET tok == HeaderToken(h)
    IN  \/ tok \notin DOMAIN JWTs
        \/ JWTs[tok].key # better_auth_secret
        \/ JWTs[tok].exp < t
        \/ ~JWTs[tok].sub.some

\* the last request went to a task endpoint
TaskEndpoint == req.path \in {TasksPath, TaskPath}

\* C17: a request to a task endpoint whose credential fails verification is
\* answered 401, no TaskService operation runs for it and the table is
\* unchanged.
Thm_C17_NoStoreCallWithoutIdentity ==
    (TaskEndpoint /\ CredFails(req.header, req.at)) =>
        /\ resp.status = 401
        /\ resp.out = ""
        /\ resp.res = {} /\ resp.list = <<>>
        /\ db = resp.pre

\* a delete of a stored task presented with a token of its owner that has
\* expired
Wit_C17_ExpiredTokenDelete ==
    /\ resp.op = "delete_task" /\ req.path = TaskPath
    /\ req.header = Some(Bearer("tokA0")) /\ req.at > 0
    /\ resp.arg \in DOMAIN db /\ db[resp.arg].user_id = "A"
    /\ resp.status = 401

\* C18: every rejection by the identity resolver has the status and the body
\* of the rejection of a request without Authorization header, whatever the
\* cause.
Orig_C18_UniformRejection ==
    (TaskEndpoint /\ CredFails(req.header, req.at)) =>
        /\ resp.status
             = JWTVerificationMiddleware_dispatch(TasksPath, None, 0).status
        /\ resp.detail
             = JWTVerificationMiddleware_dispatch(TasksPath, None, 0).detail

\* C19: a request to a registration, login, refresh or health path is
\* forwarded to its handler whatever its Authorization header; the resolver
\* does not answer it.
Orig_C19_PublicEndpointsBypass ==
    req.path \in AuthPaths => resp.out = "call_next" /\ resp.status # 401

\* C20: a task created through the create endpoint is owned by the subject
\* of the request's verified token, every task endpoint calls the service
\* with that subject, and no request changes the owner of a row, whatever
\* user_id its body carries.
Thm_C20_OwnerFromToken ==
    /\ (TaskEndpoint /\ resp.out # "") =>
          /\ ~CredFails(req.header, req.at)
          /\ resp.user = JWTs[HeaderToken(req.header)].sub.v
          /\ \A r \in resp.res : r.user_id = resp.user
    /\ (TaskEndpoint /\ resp.op = "create_task" /\ resp.out = "Task") =>
          \A r \in resp.res :
            /\ r.id \in DOMAIN db /\ db[r.id] = r
            /\ r.user_id = JWTs[HeaderToken(req.header)].sub.v
    /\ TaskEndpoint =>
          \A i \in DOMAIN resp.pre \cap DOMAIN db :
            db[i].user_id = resp.pre[i].user_id

\* the create endpoint has stored a task for a request whose token names A
\* and whose body carries the user_id of B
Wit_C20_BodyNamesOtherUser ==
    /\ TaskEndpoint /\ resp.op = "create_task" /\ resp.out = "Task"
    /\ req.header = Some(Bearer("tokA"))
    /\ req.body_user_id = Some("B")
    /\ \E r \in resp.res : r.id \in DOMAIN db /\ db[r.id].user_id = "A"
(***************************************************************************)
(* Frame and not-found properties of the single-tenant store               *)
(***************************************************************************)
\* the last call deleted a task: delete_task or the delete command found it
Deleted ==
    last.op \in {"delete_task", "cmd_delete"} /\ last.out = "True"

\* the identifier of the last call as the store received it
LastId == IF last.op \in CliOps THEN strip(last.arg) ELSE last.arg

\* C22: a successful delete_task removes the one task its identifier
\* resolves to and nothing else: the count drops by one and every remaining
\* task keeps all its fields.
Thm_C22_DeleteRemovesOnlyTarget ==
    Deleted =>
        /\ \E x \in DOMAIN last.pre :
              /\ x = LastId \/ startswith(x, LastId)
              /\ DOMAIN tasks = DOMAIN last.pre \ {x}
        /\ Cardinality(DOMAIN tasks) = Cardinality(DOMAIN last.pre) - 1
        /\ \A i \in DOMAIN tasks : tasks[i] = last.pre[i]

\* a delete by short id from a store of two tasks
Wit_C22_DeleteOneOfTwo ==
    /\ last.op = "delete_task" /\ last.out = "True"
    /\ Cardinality(DOMAIN last.pre) = 2
    /\ Len(last.arg) = ShortLen

\* C23: a successful mark_complete changes only completed and updated_at of
\* its target, leaves every other task unchanged and keeps the number of
\* tasks.
Thm_C23_ToggleFrame ==
    Toggled =>
        /\ DOMAIN tasks = DOMAIN last.pre
        /\ \A r \in last.res :
              /\ r.id \in DOMAIN last.pre
              /\ r.id = last.pre[r.id].id
              /\ r.title = last.pre[r.id].title
              /\ r.description = last.pre[r.id].description
              /\ r.created_at = last.pre[r.id].created_at
              /\ OthersUnchanged(last.pre, r.id)

\* a toggle of a task with a description in a store of two tasks
Wit_C23_ToggleOneOfTwo ==
    /\ last.op = "mark_complete" /\ last.out = "Task"
    /\ Cardinality(DOMAIN last.pre) = 2
    /\ \E r \in last.res : r.description # <<>>

\* the identifier x finds nothing in ts: it is empty, whitespace-only, or
\* neither a stored id nor a prefix of one
FindsNothing(ts, x) ==
    \/ x = <<>>
    \/ strip(x) = <<>>
    \/ x \notin DOMAIN ts /\ PrefixMatches(ts, x) = {}

\* C24: for an identifier that finds nothing, get_task, update_task and
\* mark_complete return None, delete_task returns False, none raises, and
\* the store is unchanged.
Thm_C24_NotFoundChangesNothing ==
    (last.op \in StorageOps /\ FindsNothing(last.pre, last.arg)) =>
        /\ last.out = IF last.op = "delete_task" THEN "False" ELSE "None"
        /\ last.res = {}
        /\ tasks = last.pre

\* an update_task with a new title and the empty identifier on a store that
\* holds a task
Wit_C24_EmptyIdentifierUpdate ==
    /\ last.op = "update_task"
    /\ last.arg = <<>>
    /\ last.title.some
    /\ DOMAIN last.pre # {}
(***************************************************************************)
(* Bounds validation of the multi-tenant create                            *)
(***************************************************************************)
\* the last request was a create, by a verified caller, whose title is empty
\* or too long or whose description is too long
CreateOutOfBounds ==
    /\ resp.op = "create_task"
    /\ resp.status # 401
    /\ \/ resp.data.title.v = <<>>
       \/ Len(resp.data.title.v) > TitleMax
       \/ resp.data.description.some
            /\ Len(resp.data.description.v) > DescMax

\* C25: a create whose title is empty or longer than 255 characters or whose
\* description is longer than 2000 characters fails with a validation error
\* and inserts nothing: the caller's tasks and their number are as before.
Thm_C25_CreateBounds ==
    CreateOutOfBounds =>
        /\ resp.out = "ValueError" \/ resp.status = 422
        /\ resp.res = {}
        /\ db = resp.pre
        /\ Matching(db, resp.user, None) = Matching(resp.pre, resp.user, None)
        /\ Cardinality(Matching(db, resp.user, None))
             = Cardinality(Matching(resp.pre, resp.user, None))

\* a create with a valid title and an over-long description by a caller who
\* already has a task
Wit_C25_LongDescription ==
    /\ resp.op = "create_task" /\ resp.level = "service"
    /\ ~TitleInvalid(resp.data.title.v)
    /\ resp.data.description.some
    /\ Len(resp.data.description.v) = DescMax + 1
    /\ Matching(resp.pre, resp.user, None) # {}

(***************************************************************************)
(* Requests in flight                                                      *)
(***************************************************************************)
\* the request of connection c reached its commit after the row its lookup
\* had read was deleted by another request
Vanished(c) == txn[c].pc = "done" /\ txn[c].vanished

\* the delete request of connection c reported success
DeleteSucceeded(c) ==
    txn[c].pc = "done" /\ txn[c].op = "delete_task" /\ txn[c].out = "True"

\* C21, as stated: an update or delete whose task was deleted by another
\* request between its ownership lookup and its commit ends as not-found
\* (None/False from the service, 404 from the endpoint), never as a success
\* or a server error.
Orig_C21_VanishedEndsNotFound ==
    \A c \in Conns : Vanished(c) => txn[c].out \in {"None", "False"}

\* C30: once a delete request for a task has reported success the task is
\* absent from the table in every later state, and an update request that
\* looked the task up before the delete committed fails at its commit without
\* making the task present again or writing any of its field changes.
Thm_C30_NoResurrection ==
    /\ \A c \in Conns : DeleteSucceeded(c) => txn[c].task_id \notin DOMAIN db
    /\ \A c \in Conns :
         (Vanished(c) /\ txn[c].op = "update_task") =>
            /\ txn[c].out = "StaleDataError"
            /\ txn[c].task_id \notin DOMAIN db

\* a delete reported success while an update of the same task was between
\* its lookup and its commit, and the update then reached its commit
Wit_C30_UpdateCommitsAfterDelete ==
    \E c1, c2 \in Conns :
       /\ DeleteSucceeded(c1)
       /\ ~txn[c1].vanished
       /\ Vanished(c2)
       /\ txn[c2].op = "update_task"
       /\ txn[c2].task_id = txn[c1].task_id
       /\ txn[c2].pending # txn[c2].loaded

(***************************************************************************)
(* Accounts and session renewal                                            *)
(***************************************************************************)
\* the token presented to the last refresh_access_token call was handed out
\* by login as the refresh token of user u
PresentedRefreshOf(u) ==
    /\ auth.op = "refresh_access_token"
    /\ \E h \in handed :
          h.token \in auth.token /\ h.kind = "refresh" /\ h.user = u

\* the presented token has not reached its expiry
PresentedUnexpired == \A t \in auth.token : t.exp > clock

\* C26: after logout_user(u) every refresh-token record of u is revoked, and
\* until u logs in again refresh_access_token fails with UnauthorizedError for
\* every refresh token issued to u; logout_user itself always succeeds.
Thm_C26_LogoutRevokesRenewal ==
    /\ auth.op = "logout_user" => auth.out = "None"
    /\ \A u \in Users :
         logouts[u] = "out" =>
            /\ \A r \in refresh_tokens : r.user_id = u => r.revoked_at # {}
            /\ PresentedRefreshOf(u) => auth.out = "UnauthorizedError"

\* an unexpired refresh token of a user who has logged out was presented
Wit_C26_RefreshAfterLogout ==
    \E u \in Users :
       logouts[u] = "out" /\ PresentedRefreshOf(u) /\ PresentedUnexpired

\* two emails that differ at most in letter case
SameIgnoringCase(a, b) ==
    /\ Len(a) = Len(b)
    /\ \A i \in 1..Len(a) :
          \/ a[i] = b[i]
          \/ {a[i], b[i]} \in {{"a", "A"}, {"b", "B"}}

\* C27: no two stored users have the same email compared case-insensitively,
\* and register_user for an email already registered in any letter case fails
\* with UserExistsError and creates no user.
Thm_C27_EmailsUniqueIgnoringCase ==
    /\ \A u1, u2 \in users : SameIgnoringCase(u1.email, u2.email) => u1 = u2
    /\ (/\ auth.op = "register_user"
        /\ \E u \in auth.pre : SameIgnoringCase(u.email, auth.email))
         => (auth.out = "UserExistsError" /\ users = auth.pre)

\* an email registered in lower case was registered again in upper case
Wit_C27_RegisteredInOtherCase ==
    /\ auth.op = "register_user"
    /\ \E u \in auth.pre :
          SameIgnoringCase(u.email, auth.email) /\ u.email # auth.email

\* C28, as stated: for a user who has logged in one or more times and has not
\* logged out, refresh_access_token with an unexpired refresh token of any of
\* those logins returns a new access token for that user.
Orig_C28_RefreshAfterRepeatedLogins ==
    \A u \in Users :
       (PresentedRefreshOf(u) /\ PresentedUnexpired /\ logouts[u] = "never")
          => /\ auth.out = "token"
             /\ \A t \in auth.res : t.sub = {u}

\* C29, as stated: refresh_access_token returns an access token only for a
\* token that login issued as a refresh token and whose own stored record is
\* unrevoked and unexpired.
Orig_C29_OnlyRefreshTokensAccepted ==
    (auth.op = "refresh_access_token" /\ auth.out = "token") =>
       \A t \in auth.token :
          /\ \E h \in handed : h.token = t /\ h.kind = "refresh"
          /\ \E r \in refresh_tokens :
                r.token_hash = t /\ r.revoked_at = {} /\ r.expires_at > clock
====
